---- MODULE Spec2Model ----
(***************************************************************************)
(* Capacity planning service: the forecast request handler (app.py), the   *)
(* autoregressive forecast loop and feature encoder (model_service.py) and *)
(* the capacity decision engine (capacity_planner.py).                     *)
(*                                                                         *)
(* Numbers.  Loads, capacities and timestamps are integers; a timestamp is *)
(* a count of hours since a Monday 00:00.  Every quotient the code forms   *)
(* (utilization, mean, threshold, percentages) is kept as an exact         *)
(* fraction <<num, den>> with den > 0, and comparisons cross-multiply.     *)
(* A division whose divisor is zero raises ZeroDivisionError, as Python's  *)
(* `/` does.                                                               *)
(***************************************************************************)
EXTENDS Integers, Sequences, FiniteSets, TLC

\* ------------------------------------------------------------------ bounds
MaxHours == 3
MaxForecastLen == 3
MaxHistLen == 170
MaxSeed == 2
MaxTotalHours == 12

\* ------------------------------------------------------- program constants
seq_length == 48
hours_back == 200
Lag24 == 24
Lag168 == 168
MinLoad == 100
DefaultBaseLoad == 1000
PeakHoursLimit == 10

\* ------------------------------------------------------------ input sets
Nows == {358, 371}
HoursAhead == 0..MaxHours
CurrentLoads == {<<>>, <<500>>}
Capacities == {-5, 0, 10, 12}
HandlerCapacities == {0, 1000}
Loads == {0, 2, 8, 10}
Thresholds == {<<0, 1>>, <<1, 2>>, <<8, 10>>}
HandlerThresholds == {<<0, 1>>, <<8, 10>>}
ModelOutputs == {-50, 400, 900}
Seeds == 1..MaxSeed

\* ------------------------------------------------------- exact fractions
FromInt(k) == <<k, 1>>
Zero == <<0, 1>>
RMul(x, y) == <<x[1] * y[1], x[2] * y[2]>>
\* x / y for a fraction y that is not zero; the denominator stays positive
RDiv(x, y) ==
    IF y[1] > 0 THEN <<x[1] * y[2], x[2] * y[1]>>
    ELSE <<(0 - x[1]) * y[2], x[2] * (0 - y[1])>>
RGe(x, y) == x[1] * y[2] >= y[1] * x[2]
RGt(x, y) == x[1] * y[2] > y[1] * x[2]
RLt(x, y) == x[1] * y[2] < y[1] * x[2]

Max2(a, b) == IF a >= b THEN a ELSE b

RECURSIVE SeqSum(_)
SeqSum(s) == IF s = <<>> THEN 0 ELSE Head(s) + SeqSum(Tail(s))

SeqMax(s) == CHOOSE m \in {s[k] : k \in 1..Len(s)} : \A k \in 1..Len(s) : s[k] <= m
SeqMin(s) == CHOOSE m \in {s[k] : k \in 1..Len(s)} : \A k \in 1..Len(s) : s[k] >= m
\* np.mean
Mean(s) == <<SeqSum(s), Len(s)>>

\* Outcomes of a call: a returned value or a raised exception
Return(v) == [kind |-> "return", value |-> v]
Raise(e) == [kind |-> "raise", exc |-> e]

\* ------------------------------------------------------------ timestamps
Hour(t) == t % 24
DayOfWeek(t) == (t \div 24) % 7
\* Timestamp.isoformat(): the date part and the hour part
Isoformat(t) == [date |-> t \div 24, hour |-> t % 24]
IsoLess(a, b) == a.date < b.date \/ (a.date = b.date /\ a.hour < b.hour)
\* datetime.fromisoformat(ts).hour
IsoHour(ts) == ts.hour

\* ====================================================== capacity_planner.py
ScaleUpBuffer == <<11, 10>>
ScaleDownBuffer == <<12, 10>>
CriticalUtilization == <<95, 100>>
LowUtilization == <<3, 10>>
PeakFraction == <<9, 10>>

\* A forecast point, as ModelService.forecast emits it
ForecastPoint(t, v) == [timestamp |-> Isoformat(t), predicted_load |-> v]
PredictedLoads(forecast) == [k \in 1..Len(forecast) |-> forecast[k].predicted_load]

\* int(x) of a fraction: truncation toward zero
IntCeiling(x) == IF x[1] % x[2] = 0 THEN x[1] \div x[2] ELSE (x[1] \div x[2]) + 1
IntTrunc(x) ==
    IF x[1] >= 0 THEN x[1] \div x[2] ELSE 0 - ((0 - x[1]) \div x[2])

\* x / current_capacity if current_capacity > 0 else 0
UtilizationIfNonZero(x, current_capacity) ==
    IF current_capacity # 0 THEN RDiv(x, FromInt(current_capacity)) ELSE Zero
Utilization(x, current_capacity) ==
    IF current_capacity > 0 THEN RDiv(x, FromInt(current_capacity)) ELSE Zero

\* max_utilization >= scaling_threshold
ScaleUpNeededStrict(max_utilization, scaling_threshold) ==
    RGt(max_utilization, scaling_threshold)
ScaleUpNeeded(max_utilization, scaling_threshold) ==
    RGe(max_utilization, scaling_threshold)

\* avg_utilization < 0.3
ScaleDownPossible(avg_utilization) == RLt(avg_utilization, LowUtilization)

\* 'high' if max_utilization >= 0.95 else 'medium'
ScaleUpUrgency(max_utilization) ==
    IF RGe(max_utilization, CriticalUtilization) THEN "high" ELSE "medium"

\* (recommended - current) / current * 100 if current > 0 else 0
ChangePercent(change, current) ==
    IF current > 0 THEN RMul(RDiv(FromInt(change), FromInt(current)), FromInt(100))
    ELSE Zero

\* _generate_message: the values the templated sentence is filled with
GenerateMessage(action, urgency, utilization, recommended, current) ==
    IF action = "scale_up"
    THEN [template |-> "scale_up", change |-> recommended - current,
          change_pct |-> ChangePercent(recommended - current, current),
          recommended |-> recommended, current |-> current,
          utilization_pct |-> RMul(utilization, FromInt(100))]
    ELSE IF action = "scale_down"
    THEN [template |-> "scale_down", change |-> current - recommended,
          change_pct |-> ChangePercent(current - recommended, current),
          recommended |-> recommended, current |-> current,
          utilization_pct |-> Zero]
    ELSE [template |-> "maintain", change |-> 0, change_pct |-> Zero,
          recommended |-> recommended, current |-> current,
          utilization_pct |-> RMul(utilization, FromInt(100))]

\* forecast points with predicted_load >= max_predicted * 0.9, the first 10
PeakHours(forecast, max_predicted) ==
    LET peaks == SelectSeq(forecast,
                    LAMBDA f : RGe(FromInt(f.predicted_load),
                                   RMul(FromInt(max_predicted), PeakFraction)))
    IN SubSeq(peaks, 1, IF Len(peaks) < PeakHoursLimit THEN Len(peaks) ELSE PeakHoursLimit)

\* The returned dictionary of get_recommendations
Recommendation(forecast, current_capacity, action, urgency, recommended_capacity) ==
    LET loads == PredictedLoads(forecast)
        max_predicted == SeqMax(loads)
        max_utilization == Utilization(FromInt(max_predicted), current_capacity)
    IN [action |-> action,
        urgency |-> urgency,
        current_capacity |-> current_capacity,
        recommended_capacity |-> recommended_capacity,
        capacity_change |-> recommended_capacity - current_capacity,
        capacity_change_percent |->
            ChangePercent(recommended_capacity - current_capacity, current_capacity),
        metrics |-> [max_predicted_load |-> max_predicted,
                     avg_predicted_load |-> Mean(loads),
                     min_predicted_load |-> SeqMin(loads),
                     max_utilization |-> max_utilization,
                     avg_utilization |-> Utilization(Mean(loads), current_capacity)],
        peak_hours |-> PeakHours(forecast, max_predicted),
        message |-> GenerateMessage(action, urgency, max_utilization,
                                    recommended_capacity, current_capacity)]

NoForecastData == [error |-> "No forecast data provided"]

\* CapacityPlanner.get_recommendations
GetRecommendations(forecast, current_capacity, scaling_threshold) ==
    IF forecast = <<>> THEN Return(NoForecastData)
    ELSE
    LET loads == PredictedLoads(forecast)
        max_predicted == SeqMax(loads)
        avg_predicted == Mean(loads)
        max_utilization == Utilization(FromInt(max_predicted), current_capacity)
        avg_utilization == Utilization(avg_predicted, current_capacity)
    IN  IF ScaleUpNeeded(max_utilization, scaling_threshold)
        THEN IF scaling_threshold[1] = 0 THEN Raise("ZeroDivisionError")
             ELSE Return(Recommendation(forecast, current_capacity, "scale_up",
                    ScaleUpUrgency(max_utilization),
                    IntTrunc(RMul(RDiv(FromInt(max_predicted), scaling_threshold),
                                  ScaleUpBuffer))))
        ELSE IF ScaleDownPossible(avg_utilization)
        THEN IF scaling_threshold[1] = 0 THEN Raise("ZeroDivisionError")
             ELSE Return(Recommendation(forecast, current_capacity, "scale_down", "low",
                    IntTrunc(RMul(RDiv(avg_predicted, scaling_threshold),
                                  ScaleDownBuffer))))
        ELSE Return(Recommendation(forecast, current_capacity, "maintain", "low",
                    current_capacity))

\* CapacityPlanner._assess_risk
AssessRiskSwappedLabels(critical_hours, over_capacity_hours, total_hours) ==
    LET critical_pct == IF total_hours > 0 THEN <<critical_hours, total_hours>> ELSE Zero
        over_capacity_pct ==
            IF total_hours > 0 THEN <<over_capacity_hours, total_hours>> ELSE Zero
    IN  IF RGt(critical_pct, <<1, 10>>) THEN "high"
        ELSE IF RGt(over_capacity_pct, <<2, 10>>) THEN "critical"
        ELSE IF RGt(over_capacity_pct, <<5, 100>>) THEN "medium"
        ELSE "low"
AssessRisk(critical_hours, over_capacity_hours, total_hours) ==
    LET critical_pct == IF total_hours > 0 THEN <<critical_hours, total_hours>> ELSE Zero
        over_capacity_pct ==
            IF total_hours > 0 THEN <<over_capacity_hours, total_hours>> ELSE Zero
    IN  IF RGt(critical_pct, <<1, 10>>) THEN "critical"
        ELSE IF RGt(over_capacity_pct, <<2, 10>>) THEN "high"
        ELSE IF RGt(over_capacity_pct, <<5, 100>>) THEN "medium"
        ELSE "low"

\* CapacityPlanner._generate_scenarios (scaling_threshold not zero)
GenerateScenarios(forecast, current_capacity, scaling_threshold) ==
    LET loads == PredictedLoads(forecast)
        max_load == FromInt(SeqMax(loads))
        avg_load == Mean(loads)
    IN [conservative |-> IntTrunc(RMul(RDiv(max_load, scaling_threshold), <<12, 10>>)),
        balanced |-> IntTrunc(RMul(RDiv(max_load, scaling_threshold), <<11, 10>>)),
        aggressive |-> IntTrunc(RDiv(max_load, scaling_threshold)),
        average_based |-> IntTrunc(RMul(RDiv(avg_load, scaling_threshold), <<15, 10>>))]

\* analyze: the hour whose average load is the largest (smallest), the first
\* such hour in the order the hours first appear in the forecast
HourlyAverage(forecast, h) ==
    Mean(PredictedLoads(SelectSeq(forecast, LAMBDA f : IsoHour(f.timestamp) = h)))
FirstOccurrences(forecast) ==
    {k \in 1..Len(forecast) :
        \A m \in 1..(k - 1) : IsoHour(forecast[m].timestamp) # IsoHour(forecast[k].timestamp)}
PeakHour(forecast) ==
    LET firsts == FirstOccurrences(forecast)
        avg(k) == HourlyAverage(forecast, IsoHour(forecast[k].timestamp))
        best == {k \in firsts : \A m \in firsts : RGe(avg(k), avg(m))}
        k0 == CHOOSE k \in best : \A m \in best : k <= m
    IN IsoHour(forecast[k0].timestamp)
LowHour(forecast) ==
    LET firsts == FirstOccurrences(forecast)
        avg(k) == HourlyAverage(forecast, IsoHour(forecast[k].timestamp))
        best == {k \in firsts : \A m \in firsts : RGe(avg(m), avg(k))}
        k0 == CHOOSE k \in best : \A m \in best : k <= m
    IN IsoHour(forecast[k0].timestamp)

\* CapacityPlanner.analyze
Analyze(forecast, current_capacity, scaling_threshold) ==
    IF forecast = <<>> THEN Return(NoForecastData)
    ELSE IF current_capacity = 0 THEN Raise("ZeroDivisionError")
    ELSE
    LET loads == PredictedLoads(forecast)
        n == Len(loads)
        utilizations ==
            [k \in 1..n |-> RDiv(FromInt(loads[k]), FromInt(current_capacity))]
        over_capacity_hours ==
            Cardinality({k \in 1..n : RGe(utilizations[k], scaling_threshold)})
        critical_hours ==
            Cardinality({k \in 1..n : RGe(utilizations[k], CriticalUtilization)})
        under_utilized_hours ==
            Cardinality({k \in 1..n : RLt(utilizations[k], LowUtilization)})
        recommendations == GetRecommendations(forecast, current_capacity, scaling_threshold)
    IN  IF recommendations.kind = "raise" THEN recommendations
        ELSE IF scaling_threshold[1] = 0 THEN Raise("ZeroDivisionError")
        ELSE Return(
          [summary |-> [forecast_period_hours |-> n,
                        current_capacity |-> current_capacity,
                        scaling_threshold |-> scaling_threshold],
           load_statistics |->
               [max_load |-> SeqMax(loads), min_load |-> SeqMin(loads),
                avg_load |-> Mean(loads),
                \* std_load is the square root of this variance
                var_load |-> <<n * SeqSum([k \in 1..n |-> loads[k] * loads[k]])
                                 - SeqSum(loads) * SeqSum(loads), n * n>>],
           utilizations |-> utilizations,
           utilization_statistics |->
               [max_utilization |-> RDiv(FromInt(IF current_capacity > 0
                                          THEN SeqMax(loads) ELSE SeqMin(loads)),
                                         FromInt(current_capacity)),
                avg_utilization |-> RDiv(Mean(loads), FromInt(current_capacity)),
                min_utilization |-> RDiv(FromInt(IF current_capacity > 0
                                          THEN SeqMin(loads) ELSE SeqMax(loads)),
                                         FromInt(current_capacity))],
           risk_assessment |->
               [over_capacity_hours |-> over_capacity_hours,
                critical_hours |-> critical_hours,
                under_utilized_hours |-> under_utilized_hours,
                risk_level |-> AssessRisk(critical_hours, over_capacity_hours, n)],
           hourly_patterns |-> [peak_hour |-> PeakHour(forecast),
                                low_hour |-> LowHour(forecast)],
           recommendations |-> recommendations.value,
           scaling_scenarios |->
               GenerateScenarios(forecast, current_capacity, scaling_threshold)])

\* ========================================================= model_service.py
None == <<>>
Some(x) == <<x>>

\* ModelService._load_model: whether the three files exist and load
LoadModel(files_exist, load_ok) == files_exist /\ load_ok

\* target_scaler / time_scaler: pre-fit per-column transforms, kept symbolic
TargetTransform(c, x) == [scaler |-> "target", column |-> c, raw |-> x]
TimeTransform(c, x) == [scaler |-> "time", column |-> c, raw |-> x]
\* target_scaler.inverse_transform(dummy_pred)[0, 0]
TargetInverse(y) == y.raw

\* historical_counts[-N] if len(historical_counts) >= N else historical_counts[-1]
LagEarliestFallback(h, N) == IF Len(h) >= N THEN h[Len(h) - N + 1] ELSE h[1]
Lag(h, N) == IF Len(h) >= N THEN h[Len(h) - N + 1] ELSE h[Len(h)]

\* _prepare_features: the unscaled array [current_count, lag_24, lag_168, hour, dayofweek]
Features(timestamp, h) ==
    <<h[Len(h)], Lag(h, Lag24), Lag(h, Lag168), Hour(timestamp), DayOfWeek(timestamp)>>

\* _prepare_features: the scaled feature vector
ScaledFeatures(timestamp, h) ==
    LET f == Features(timestamp, h)
    IN <<TargetTransform(1, f[1]), TargetTransform(2, f[2]), TargetTransform(3, f[3]),
         TimeTransform(1, f[4]), TimeTransform(2, f[5])>>

\* _prepare_features with its failure on an empty history
PrepareFeatures(timestamp, h) ==
    IF h = <<>> THEN Raise("IndexError") ELSE Return(ScaledFeatures(timestamp, h))

\* _generate_historical_data: hours_back hourly loads ending one hour before
\* start_timestamp.  hour_factor * day_factor * (1 + noise) is random; seed
\* selects one outcome, in tenths, per timestamp.
LoadFactorTenths(seed, ts) == 7 + ((seed * ts) % 7)
GenerateHistoricalData(start, current_load, seed) ==
    LET base_load == IF current_load # None THEN current_load[1] ELSE DefaultBaseLoad
    IN [k \in 1..hours_back |->
          Max2(MinLoad, (base_load * LoadFactorTenths(seed, start - hours_back + k - 1)) \div 10)]

\* forecast_time = start_timestamp + timedelta(hours=i)
ForecastTimeOffByOne(start, step) == start + step + 1
ForecastTime(start, step) == start + step

\* context.append(pred_inv)
UpdateContextSliding(ctx, pred_inv) == Append(Tail(ctx), pred_inv)
UpdateContext(ctx, pred_inv) == Append(ctx, pred_inv)

\* seq_time = forecast_time - timedelta(hours=self.seq_length - j), j from 0
SeqTime(forecast_time, j) == forecast_time - (seq_length - j)

\* padded_context (computed by the loop, not read afterwards)
PaddedContext(ctx) ==
    IF Len(ctx) < seq_length
    THEN ctx \o [k \in 1..(seq_length - Len(ctx)) |-> ctx[Len(ctx)]]
    ELSE SubSeq(ctx, Len(ctx) - seq_length + 1, Len(ctx))

\* seq_features: the model input assembled by the inner loop
SeqFeatures(forecast_time, ctx) ==
    [p \in 1..seq_length |-> ScaledFeatures(SeqTime(forecast_time, p - 1), ctx)]

\* if not self.is_model_loaded: raise ValueError
ModelUnavailableNeverChecked(loaded) == FALSE
ModelUnavailable(loaded) == ~loaded

\* zip(forecast_timestamps, forecast_values)
Zip(ts, vals) ==
    [k \in 1..(IF Len(ts) < Len(vals) THEN Len(ts) ELSE Len(vals)) |->
        [timestamp |-> ts[k], predicted_load |-> vals[k]]]

\* The dictionary forecast returns
ForecastResult(ts, vals, hours_ahead, start) ==
    [forecast |-> Zip(ts, vals), hours_ahead |-> hours_ahead,
     start_timestamp |-> Isoformat(start)]

\* =================================================================== app.py
SuccessResponse(forecast_result, recommendations) ==
    [success |-> TRUE, status |-> 200, forecast |-> forecast_result,
     recommendations |-> recommendations]
ErrorResponse(e) == [success |-> FALSE, status |-> 500, error |-> e]

\* ==================================================================== state
VARIABLES
    is_model_loaded,      \* ModelService.is_model_loaded
    pc,                   \* where the request handler is
    data,                 \* the request body being handled
    start_timestamp,      \* forecast's resolved start timestamp
    historical_counts,    \* forecast's seed history
    context,              \* forecast's context list
    i,                    \* forecast's loop index
    forecast_timestamps,  \* forecast's list of emitted timestamps
    forecast_values,      \* forecast's list of emitted values
    padded_context,       \* the last step's padded_context
    seq_features,         \* the last step's model input
    forecast_result,      \* what forecast returned to the handler
    exc,                  \* the exception in flight
    response,             \* the handler's response
    call                  \* a direct call of a planner or encoder function

vars == <<is_model_loaded, pc, data, start_timestamp, historical_counts, context, i,
          forecast_timestamps, forecast_values, padded_context, seq_features,
          forecast_result, exc, response, call>>

locals == <<start_timestamp, historical_counts, context, i, forecast_timestamps,
            forecast_values, padded_context, seq_features>>

Init ==
    /\ is_model_loaded \in {LoadModel(f, l) : f \in BOOLEAN, l \in BOOLEAN}
    /\ pc = "idle"
    /\ data = None
    /\ start_timestamp = None
    /\ historical_counts = <<>>
    /\ context = <<>>
    /\ i = 0
    /\ forecast_timestamps = <<>>
    /\ forecast_values = <<>>
    /\ padded_context = <<>>
    /\ seq_features = <<>>
    /\ forecast_result = None
    /\ exc = None
    /\ response = None
    /\ call = None

\* ------------------------------------------------- the request handler
\* get_capacity_recommendations: read the request body (every field given;
\* current_load may be absent, which reads as None)
HandleRequest ==
    /\ pc = "idle" /\ call = None
    /\ \E h \in HoursAhead, c \in HandlerCapacities, l \in CurrentLoads,
          t \in HandlerThresholds :
          data' = Some([hours_ahead |-> h, current_capacity |-> c,
                        current_load |-> l, scaling_threshold |-> t])
    /\ pc' = "forecast"
    /\ UNCHANGED <<is_model_loaded, locals, forecast_result, exc, response, call>>

\* forecast: the model check fails the call
ForecastUnavailable ==
    /\ pc = "forecast"
    /\ ModelUnavailable(is_model_loaded)
    /\ exc' = Some("ValueError")
    /\ pc' = "except"
    /\ UNCHANGED <<is_model_loaded, data, locals, forecast_result, response, call>>

\* forecast: resolve the start timestamp, generate the history, copy it
ForecastStart ==
    /\ pc = "forecast"
    /\ ~ModelUnavailable(is_model_loaded)
    /\ \E now \in Nows, seed \in Seeds :
          LET h == GenerateHistoricalData(now, data[1].current_load, seed)
          IN /\ start_timestamp' = Some(now)
             /\ historical_counts' = h
             /\ context' = h
    /\ i' = 0
    /\ forecast_timestamps' = <<>>
    /\ forecast_values' = <<>>
    /\ pc' = "loop"
    /\ UNCHANGED <<is_model_loaded, data, padded_context, seq_features,
                   forecast_result, exc, response, call>>

\* forecast: one iteration of `for i in range(hours_ahead)`
LoopStep ==
    /\ pc = "loop"
    /\ i < data[1].hours_ahead
    /\ is_model_loaded
    /\ context # <<>>
    /\ LET forecast_time == ForecastTime(start_timestamp[1], i)
       IN /\ padded_context' = PaddedContext(context)
          /\ seq_features' = SeqFeatures(forecast_time, context)
          /\ \E out \in ModelOutputs :
                LET pred == TargetTransform(1, out)
                    pred_inv == Max2(0, TargetInverse(pred))
                IN /\ forecast_timestamps' =
                          Append(forecast_timestamps, Isoformat(forecast_time))
                   /\ forecast_values' = Append(forecast_values, pred_inv)
                   /\ context' = UpdateContext(context, pred_inv)
    /\ i' = i + 1
    /\ UNCHANGED <<is_model_loaded, pc, data, start_timestamp, historical_counts,
                   forecast_result, exc, response, call>>

\* forecast: an iteration raises (the scalers or the model are missing, the
\* history is empty, or the model call fails)
LoopStepRaises ==
    /\ pc = "loop"
    /\ i < data[1].hours_ahead
    /\ exc' = Some(IF ~is_model_loaded THEN "AttributeError"
                   ELSE IF context = <<>> THEN "IndexError" ELSE "RuntimeError")
    /\ pc' = "except"
    /\ UNCHANGED <<is_model_loaded, data, locals, forecast_result, response, call>>

\* forecast: the loop is over, the dictionary is returned
ForecastReturn ==
    /\ pc = "loop"
    /\ i >= data[1].hours_ahead
    /\ forecast_result' = Some(ForecastResult(forecast_timestamps, forecast_values,
                                   data[1].hours_ahead, start_timestamp[1]))
    /\ pc' = "recommend"
    /\ UNCHANGED <<is_model_loaded, data, locals, exc, response, call>>

\* get_capacity_recommendations: get_recommendations, then the success response
Recommend ==
    /\ pc = "recommend"
    /\ LET r == GetRecommendations(forecast_result[1].forecast,
                    data[1].current_capacity, data[1].scaling_threshold)
       IN IF r.kind = "raise"
          THEN /\ exc' = Some(r.exc)
               /\ pc' = "except"
               /\ UNCHANGED response
          ELSE /\ response' = Some(SuccessResponse(forecast_result[1], r.value))
               /\ pc' = "responded"
               /\ UNCHANGED exc
    /\ UNCHANGED <<is_model_loaded, data, locals, forecast_result, call>>

\* get_capacity_recommendations: except Exception
Except ==
    /\ pc = "except"
    /\ response' = Some(ErrorResponse(exc[1]))
    /\ pc' = "responded"
    /\ UNCHANGED <<is_model_loaded, data, locals, forecast_result, exc, call>>

\* The response is sent; the request's locals are gone
Finish ==
    /\ pc = "responded"
    /\ pc' = "idle"
    /\ data' = None
    /\ start_timestamp' = None
    /\ historical_counts' = <<>>
    /\ context' = <<>>
    /\ i' = 0
    /\ forecast_timestamps' = <<>>
    /\ forecast_values' = <<>>
    /\ padded_context' = <<>>
    /\ seq_features' = <<>>
    /\ forecast_result' = None
    /\ exc' = None
    /\ response' = None
    /\ UNCHANGED <<is_model_loaded, call>>

\* ------------------------------------------------------- direct calls
handler == <<pc, data, locals, forecast_result, exc, response>>

\* A forecast of the given loads, hourly from t0
ForecastOf(t0, loads) == [k \in 1..Len(loads) |-> ForecastPoint(t0 + k - 1, loads[k])]

LoadSeqs == UNION {[1..n -> Loads] : n \in 0..MaxForecastLen}

CallGetRecommendations ==
    /\ pc = "idle" /\ call = None
    /\ \E t0 \in Nows, loads \in LoadSeqs, c \in Capacities, t \in Thresholds :
          call' = Some([op |-> "get_recommendations",
                        forecast |-> ForecastOf(t0, loads),
                        current_capacity |-> c,
                        scaling_threshold |-> t,
                        result |-> GetRecommendations(ForecastOf(t0, loads), c, t)])
    /\ UNCHANGED <<is_model_loaded, handler>>

CallAnalyze ==
    /\ pc = "idle" /\ call = None
    /\ \E t0 \in Nows, loads \in LoadSeqs, c \in Capacities, t \in Thresholds :
          call' = Some([op |-> "analyze",
                        forecast |-> ForecastOf(t0, loads),
                        current_capacity |-> c,
                        scaling_threshold |-> t,
                        result |-> Analyze(ForecastOf(t0, loads), c, t)])
    /\ UNCHANGED <<is_model_loaded, handler>>

\* _assess_risk for two values of critical_hours, the rest held fixed
CallAssessRisk ==
    /\ pc = "idle" /\ call = None
    /\ \E total \in 0..MaxTotalHours :
       \E over \in 0..total, c1 \in 0..total :
       \E c2 \in c1..total :
          call' = Some([op |-> "_assess_risk",
                        total_hours |-> total,
                        over_capacity_hours |-> over,
                        critical_hours |-> <<c1, c2>>,
                        result |-> <<AssessRisk(c1, over, total),
                                     AssessRisk(c2, over, total)>>])
    /\ UNCHANGED <<is_model_loaded, handler>>

\* A history of n distinct values
HistoryOf(seed, n) == [k \in 1..n |-> MinLoad + seed * k]

CallPrepareFeatures ==
    /\ pc = "idle" /\ call = None
    /\ \E t \in Nows, seed \in Seeds, n \in 0..MaxHistLen :
          call' = Some([op |-> "_prepare_features",
                        timestamp |-> t,
                        historical_counts |-> HistoryOf(seed, n),
                        features |-> IF n = 0 THEN <<>> ELSE Features(t, HistoryOf(seed, n)),
                        result |-> PrepareFeatures(t, HistoryOf(seed, n))])
    /\ UNCHANGED <<is_model_loaded, handler>>

\* health_check
CallHealthCheck ==
    /\ pc = "idle" /\ call = None
    /\ call' = Some([op |-> "health_check",
                     result |-> Return([status |-> "healthy",
                                        model_loaded |-> is_model_loaded])])
    /\ UNCHANGED <<is_model_loaded, handler>>

CallReturns ==
    /\ call # None
    /\ call' = None
    /\ UNCHANGED <<is_model_loaded, handler>>

Next ==
    \/ HandleRequest
    \/ ForecastUnavailable
    \/ ForecastStart
    \/ LoopStep
    \/ LoopStepRaises
    \/ ForecastReturn
    \/ Recommend
    \/ Except
    \/ Finish
    \/ CallGetRecommendations
    \/ CallAnalyze
    \/ CallAssessRisk
    \/ CallPrepareFeatures
    \/ CallHealthCheck
    \/ CallReturns

Spec == Init /\ [][Next]_vars

\* ================================================================ properties
\* The hour count an ISO timestamp denotes
IsoToHours(ts) == ts.date * 24 + ts.hour

IsCall(op) == call # None /\ call[1].op = op

\* C1: a successful forecast returns exactly hours_ahead points, the k-th
\* stamped start_timestamp + (k-1) hours, strictly increasing and one hour
\* apart, the first equal to the returned start_timestamp; the returned
\* hours_ahead is the requested one.
C1_ForecastShape ==
    forecast_result # None =>
        LET r == forecast_result[1]
            H == data[1].hours_ahead
            f == r.forecast
        IN /\ Len(f) = H
           /\ r.hours_ahead = H
           /\ r.start_timestamp = Isoformat(start_timestamp[1])
           /\ H >= 1 => f[1].timestamp = r.start_timestamp
           /\ \A k \in 1..H :
                 IsoToHours(f[k].timestamp) = IsoToHours(r.start_timestamp) + (k - 1)
           /\ \A k \in 1..(H - 1) :
                 /\ IsoLess(f[k].timestamp, f[k + 1].timestamp)
                 /\ IsoToHours(f[k + 1].timestamp) - IsoToHours(f[k].timestamp) = 1

C1_Witness ==
    /\ forecast_result # None
    /\ data[1].hours_ahead >= 2
    /\ Len(forecast_result[1].forecast) = data[1].hours_ahead

C3_Value(c) ==
    LET loads == PredictedLoads(c.forecast)
        thr == c.scaling_threshold
    IN IF c.result.value.action = "scale_up"
       THEN <<SeqMax(loads) * thr[2] * 11, thr[1] * 10>>
       ELSE <<SeqSum(loads) * thr[2] * 12, Len(loads) * thr[1] * 10>>

C3_Rounded ==
    /\ IsCall("get_recommendations")
    /\ call[1].forecast # <<>>
    /\ call[1].scaling_threshold[1] > 0
    /\ call[1].result.kind = "return"
    /\ call[1].result.value.action \in {"scale_up", "scale_down"}

\* C3 (as stated): recommended_capacity is the ceiling of max_load / threshold
\* x 1.1 (scale_up) or of avg_load / threshold x 1.2 (scale_down), so it is
\* never smaller than the unrounded value.
C3_Ceiling ==
    C3_Rounded =>
        LET v == C3_Value(call[1])
            rc == call[1].result.value.recommended_capacity
        IN rc * v[2] >= v[1] /\ (rc - 1) * v[2] < v[1]

\* C3 (amended): recommended_capacity is the computed value truncated to an
\* integer by int(), the floor: never larger than that value and less than 1
\* below it.
C3_Floor ==
    C3_Rounded =>
        LET v == C3_Value(call[1])
            rc == call[1].result.value.recommended_capacity
        IN rc * v[2] <= v[1] /\ (rc + 1) * v[2] > v[1]

\* scale_up with a formula value that is not an integer
C3_Witness ==
    /\ C3_Rounded
    /\ call[1].result.value.action = "scale_up"
    /\ C3_Value(call[1])[1] % C3_Value(call[1])[2] # 0

\* C4: an empty forecast ends get_recommendations and analyze in an error
\* outcome, not a returned value, and the handler does not report success
\* for it.
C4_EmptyForecastIsError ==
    /\ (/\ call # None
        /\ call[1].op \in {"get_recommendations", "analyze"}
        /\ call[1].forecast = <<>>) => call[1].result.kind = "raise"
    /\ (/\ response # None
        /\ forecast_result # None
        /\ forecast_result[1].forecast = <<>>) => ~response[1].success

\* C5: get_recommendations with a non-empty forecast, a positive threshold and
\* current_capacity <= 0 returns (no division error) with both utilizations 0,
\* capacity_change_percent 0 and an action that is not scale_up.
C5_GuardedDivision ==
    (/\ IsCall("get_recommendations")
     /\ call[1].forecast # <<>>
     /\ call[1].scaling_threshold[1] > 0
     /\ call[1].current_capacity <= 0) =>
        LET r == call[1].result
        IN /\ r.kind = "return"
           /\ r.value.metrics.max_utilization[1] = 0
           /\ r.value.metrics.avg_utilization[1] = 0
           /\ r.value.capacity_change_percent[1] = 0
           /\ r.value.message.change_pct[1] = 0
           /\ r.value.action \in {"maintain", "scale_down"}

C5_Witness ==
    /\ IsCall("get_recommendations")
    /\ call[1].scaling_threshold[1] > 0
    /\ call[1].current_capacity < 0
    /\ call[1].forecast # <<>>
    /\ SeqMax(PredictedLoads(call[1].forecast)) > 0
    /\ call[1].result.kind = "return"

\* C6: analyze with a non-empty forecast, a positive threshold and
\* current_capacity <= 0 completes without raising, with every per-point
\* utilization 0.
C6_AnalyzeGuarded ==
    (/\ IsCall("analyze")
     /\ call[1].forecast # <<>>
     /\ call[1].scaling_threshold[1] > 0
     /\ call[1].current_capacity <= 0) =>
        /\ call[1].result.kind = "return"
        /\ \A k \in 1..Len(call[1].forecast) :
              call[1].result.value.utilizations[k][1] = 0

\* C7: with the model not loaded, forecast fails before any history is
\* generated or any loop step runs and the handler answers success = false
\* with no forecast; every response is either a success carrying all
\* hours_ahead points or a failure carrying no forecast at all.
C7_AllOrNothing ==
    /\ ~is_model_loaded =>
          /\ historical_counts = <<>>
          /\ context = <<>>
          /\ i = 0
          /\ seq_features = <<>>
          /\ forecast_values = <<>>
          /\ forecast_result = None
          /\ response # None => ~response[1].success
    /\ response # None =>
          IF response[1].success
          THEN Len(response[1].forecast.forecast) = data[1].hours_ahead
          ELSE /\ "forecast" \notin DOMAIN response[1]
               /\ "error" \in DOMAIN response[1]

C7_Witness ==
    /\ ~is_model_loaded
    /\ response # None
    /\ ~response[1].success
    /\ response[1].error = "ValueError"

Rank(level) ==
    CASE level = "low" -> 0
      [] level = "medium" -> 1
      [] level = "high" -> 2
      [] level = "critical" -> 3

\* C8: for total_hours > 0 and critical_hours c1 <= c2, the other arguments
\* equal, the risk level for c2 is not lower than the one for c1.
C8_RiskMonotone ==
    (IsCall("_assess_risk") /\ call[1].total_hours > 0) =>
        Rank(call[1].result[2]) >= Rank(call[1].result[1])

C8_Witness ==
    /\ IsCall("_assess_risk")
    /\ call[1].total_hours > 0
    /\ call[1].critical_hours[1] < call[1].critical_hours[2]
    /\ call[1].result[1] = "high"
    /\ call[1].result[2] = "critical"

\* C9: the model input of a loop step has seq_length vectors, and the vector
\* at position p carries the current_count, lag_24 and lag_168 of the history
\* preceding that position's own timestamp.
C9_PerPositionEncoding ==
    seq_features # <<>> =>
        LET before == SubSeq(context, 1, Len(context) - 1)
            forecast_time == start_timestamp[1] + (i - 1)
        IN /\ Len(seq_features) = seq_length
           /\ \A p \in 1..seq_length :
                 LET seq_time == forecast_time - (seq_length - (p - 1))
                     prior == SubSeq(before, 1, Len(before) - (seq_length - (p - 1)))
                 IN /\ seq_features[p][1].raw = prior[Len(prior)]
                    /\ seq_features[p][2].raw =
                          (IF Len(prior) >= Lag24 THEN prior[Len(prior) - Lag24 + 1]
                           ELSE prior[Len(prior)])
                    /\ seq_features[p][3].raw =
                          (IF Len(prior) >= Lag168 THEN prior[Len(prior) - Lag168 + 1]
                           ELSE prior[Len(prior)])

C10_Encoded == IsCall("_prepare_features") /\ call[1].historical_counts # <<>>

\* C10 (as stated): lag_N is h[len(h) - N] when len(h) >= N and the earliest
\* point h[0] when len(h) < N; current_count is the last point.
C10_EarliestFallback ==
    C10_Encoded =>
        LET h == call[1].historical_counts
            n == Len(h)
            f == call[1].features
        IN /\ f[1] = h[n]
           /\ f[2] = (IF n >= Lag24 THEN h[n - Lag24 + 1] ELSE h[1])
           /\ f[3] = (IF n >= Lag168 THEN h[n - Lag168 + 1] ELSE h[1])

\* C10 (amended): lag_N is h[len(h) - N] when len(h) >= N and the most recent
\* point h[len(h) - 1] when len(h) < N; current_count is the last point; the
\* scaled vector carries these values.
C10_LatestFallback ==
    C10_Encoded =>
        LET h == call[1].historical_counts
            n == Len(h)
            f == call[1].features
            v == call[1].result.value
        IN /\ call[1].result.kind = "return"
           /\ f[1] = h[n]
           /\ f[2] = (IF n >= Lag24 THEN h[n - Lag24 + 1] ELSE h[n])
           /\ f[3] = (IF n >= Lag168 THEN h[n - Lag168 + 1] ELSE h[n])
           /\ \A c \in 1..3 : TargetInverse(v[c]) = f[c]

\* a history shorter than 24 points whose first and last points differ
C10_Witness ==
    /\ C10_Encoded
    /\ Len(call[1].historical_counts) < Lag24
    /\ call[1].historical_counts[1] # call[1].historical_counts[Len(call[1].historical_counts)]
    /\ call[1].result.kind = "return"

C11_InLoop == pc \in {"loop", "recommend"} \/ (pc \in {"except", "responded"} /\ context # <<>>)

\* C11: after k completed loop steps the context is the seed history, in its
\* order and unchanged, followed by the k values emitted so far in emission
\* order, so its length is the seed's plus k; the step that has just run read
\* a context ending with the previous step's prediction; the seed list is
\* still the generated history.
C11_ContextAppendOnly ==
    C11_InLoop =>
        /\ i = Len(forecast_values)
        /\ i <= data[1].hours_ahead
        /\ Len(context) = Len(historical_counts) + i
        /\ context = historical_counts \o forecast_values
        /\ Len(historical_counts) = hours_back
        /\ \E seed \in Seeds :
              historical_counts =
                  GenerateHistoricalData(start_timestamp[1], data[1].current_load, seed)
        /\ i >= 1 =>
              /\ Len(seq_features) = seq_length
              /\ \A p \in 1..seq_length :
                    seq_features[p][1].raw =
                        (IF i >= 2 THEN forecast_values[i - 1]
                         ELSE historical_counts[Len(historical_counts)])

\* two steps done, with different predictions
C11_Witness ==
    /\ pc = "loop"
    /\ i >= 2
    /\ forecast_values[1] # forecast_values[2]
    /\ context = historical_counts \o forecast_values

====
